---- MODULE Spec2Model ----
(***************************************************************************)
(* Event aggregation and flush engine of trudan-studios/sky-mavis.         *)
(*                                                                         *)
(* Part I  : the in-process aggregator (EventTracker + ApiKeyTracker).     *)
(* Part II : the Redis-backed relay (single-tenant variant).               *)
(* Part III: the aggregator with several tenants and several timers.       *)
(* Part IV : the Redis-backed relay (multi-tenant variant).                *)
(* Part V  : the client SDK (MavisTracking).                               *)
(*                                                                         *)
(* An Event is abstracted to [id, size]: id is its position in the order   *)
(* of enqueueing (1, 2, 3, ...), size is the byte length of                *)
(* JSON.stringify(event) as TextEncoder measures it.                       *)
(***************************************************************************)
EXTENDS Integers, Sequences, FiniteSets, TLC

VARIABLES
    tracker,      \* the ApiKeyTracker of one tenant: queue, requestsInLastSecond,
                  \* lastRequestAt, and its suspended sendEvents calls (inflight)
    now,          \* Date.now()
    nextId,       \* id of the next event a /track request will bring
    delivered,    \* the events the upstream collector has answered with a success
                  \* status: [id, sentAt] of the first such answer for each event
    event_queue,  \* the Redis list 'event_queue', head first
    requestsInLastSecond,  \* the relay's module-level request counter
    lastRequestTime,       \* the relay's module-level window start
    passes,       \* the relay's flushEvents activations, by slot
    trackers,     \* EventTracker.trackers: the Map from api key to ApiKeyTracker
    shadow,       \* the trackers of a second run of the aggregator (Part III)
    intervals,    \* the setInterval timers startFlushInterval has armed: for
                  \* each, the time of its last callback (of its arming at first)
    sdk,          \* the fields of a MavisTracking instance (Part V)
    timers,       \* the timer handles of the SDK's runtime: the next handle and
                  \* the handles that are armed
    posts,        \* the POSTs of the SDK that are in flight
    life          \* the SDK instance's shutdown() call: its phase, the events
                  \* queued before it, and whether its POST succeeded

redisVars == <<event_queue, requestsInLastSecond, lastRequestTime, passes>>

tenantVars == <<trackers, shadow, intervals>>

sdkVars == <<sdk, timers, posts, life>>

\* The variables of the parts that follow Part II.
extVars == <<tenantVars, sdkVars>>

vars == <<tracker, now, nextId, delivered, event_queue, requestsInLastSecond,
          lastRequestTime, passes, trackers, shadow, intervals, sdk, timers,
          posts, life>>

(***************************************************************************)
(* Program constants. ApiKeyTracker and EventTracker import them from      *)
(* ./constants; the relay variants define the same names with these        *)
(* values.                                                                 *)
(***************************************************************************)
MAX_BODY_SIZE == 1000000
MAX_REQUESTS_PER_SECOND == 100
FLUSH_INTERVAL == 1000

(***************************************************************************)
(* Bounds of the model.                                                    *)
(***************************************************************************)
MaxEvents == 3          \* events the environment enqueues in one behaviour
MaxPasses == 2          \* flushEvents activations of the relay alive at a time
MaxTime == 3300         \* no tick fires after this time
Jitter == 100           \* a timer callback runs up to this much off its period

\* Time between two callbacks of setInterval(..., FLUSH_INTERVAL).
TickPeriods == {FLUSH_INTERVAL - Jitter, FLUSH_INTERVAL, FLUSH_INTERVAL + Jitter}

\* Date.now() is the wall clock: between two callbacks it may also not have
\* advanced at all (the clock was set back, or the callbacks ran late and
\* back to back).
StalledPeriods == {0, FLUSH_INTERVAL}

\* Serialized sizes of the events the environment submits: two sizes that
\* fit several times (or exactly twice) into MAX_BODY_SIZE, and one event
\* that is larger than MAX_BODY_SIZE on its own.
EventSizes == {400000, 500000, 1000001}

(***************************************************************************)
(* Helpers on sequences of events.                                         *)
(***************************************************************************)
RECURSIVE SumSizes(_)
SumSizes(s) == IF s = <<>> THEN 0 ELSE Head(s).size + SumSizes(Tail(s))

Ids(s) == {s[i].id : i \in 1..Len(s)}

\* Byte length of JSON.stringify(events): "[" e1 "," e2 ... "]".
calculatePayloadSize(events) ==
    IF events = <<>> THEN 2 ELSE 2 + SumSizes(events) + (Len(events) - 1)

(***************************************************************************)
(* ApiKeyTracker                                                           *)
(***************************************************************************)
NewTracker(t) ==
    [queue |-> <<>>, requestsInLastSecond |-> 0, lastRequestAt |-> t, inflight |-> {}]

\* queueEvents: this.queue.push(...queue)
queueEvents(tr, events) == [tr EXCEPT !.queue = @ \o events]

\* The window check with > in the place of >=.
WindowExpiredLate(tr, t) == t - tr.lastRequestAt > FLUSH_INTERVAL

\* flushEvents, lines 19-23: the fixed window is restarted when it has expired.
WindowExpired(tr, t) == t - tr.lastRequestAt >= FLUSH_INTERVAL

ResetWindow(tr, t) ==
    IF WindowExpired(tr, t)
    THEN [tr EXCEPT !.requestsInLastSecond = 0, !.lastRequestAt = t]
    ELSE tr

\* flushEvents, line 25: the rate check.
RateLimited(tr) == tr.requestsInLastSecond > MAX_REQUESTS_PER_SECOND

\* flushEvents, lines 30-38: the while loop. n events have been shifted into
\* eventsToSend and currentSize is the sum of their sizes; the result is the
\* number of events in eventsToSend when the loop ends.
\* The loop with the comparison  newSize >= MAX_BODY_SIZE  as its exit.
RECURSIVE BatchLenStopsAtLimit(_, _, _)
BatchLenStopsAtLimit(q, n, currentSize) ==
    IF n >= Len(q) THEN n
    ELSE LET newSize == currentSize + q[n + 1].size
         IN  IF newSize >= MAX_BODY_SIZE THEN n
             ELSE BatchLenStopsAtLimit(q, n + 1, newSize)

RECURSIVE BatchLen(_, _, _)
BatchLen(q, n, currentSize) ==
    IF n >= Len(q) THEN n
    ELSE LET newSize == currentSize + q[n + 1].size
         IN  IF newSize > MAX_BODY_SIZE THEN n
             ELSE BatchLen(q, n + 1, newSize)

\* A suspended sendEvents call: the batch, the await it is suspended at, and
\* (for the record only; the code does not keep it) the time of the pass that
\* sent it.
Pending(events, phase, t) == [events |-> events, phase |-> phase, sentAt |-> t]

\* sendEvents up to its first await (lines 45-55): count the request, start fetch.
sendEventsStart(tr, events, t) ==
    [tr EXCEPT !.requestsInLastSecond = @ + 1,
               !.inflight = @ \cup {Pending(events, "fetch", t)}]

\* The catch block with push in the place of unshift.
RequeueAtTail(q, events) == q \o events

\* sendEvents, catch block (lines 62-65): this.queue.unshift(...events)
Requeue(q, events) == events \o q

\* flushEvents without the return of line 27: a rate-limited pass goes on to
\* build and send its batch.
flushEventsNoDeferral(tr, t) ==
    LET r == ResetWindow(tr, t)
        n == BatchLen(r.queue, 0, 0)
    IN  IF n = 0 THEN r
        ELSE sendEventsStart([r EXCEPT !.queue = SubSeq(r.queue, n + 1, Len(r.queue))],
                             SubSeq(r.queue, 1, n), t)

\* flushEvents without the return of line 40: an empty batch is sent too.
flushEventsSendsEmpty(tr, t) ==
    LET r == ResetWindow(tr, t)
    IN  IF RateLimited(r) THEN r
        ELSE LET n == BatchLen(r.queue, 0, 0)
             IN  sendEventsStart([r EXCEPT !.queue = SubSeq(r.queue, n + 1, Len(r.queue))],
                                 SubSeq(r.queue, 1, n), t)

\* flushEvents from its call to the first await: everything it does
\* synchronously, sendEvents' synchronous part included.
flushEventsSync(tr, t) ==
    LET r == ResetWindow(tr, t)
    IN  IF RateLimited(r) THEN r
        ELSE LET n == BatchLen(r.queue, 0, 0)
                 eventsToSend == SubSeq(r.queue, 1, n)
                 rest == SubSeq(r.queue, n + 1, Len(r.queue))
             IN  IF n = 0 THEN r
                 ELSE sendEventsStart([r EXCEPT !.queue = rest], eventsToSend, t)

(***************************************************************************)
(* The relay before its first timer callback: an empty list, the counter   *)
(* at 0, no flushEvents activation.                                        *)
(***************************************************************************)
Slots == 1..MaxPasses

IdlePass ==
    [pc |-> "idle", eventsToSend |-> <<>>, nextEvent |-> <<>>, ok |-> FALSE,
     sentAt |-> 0, alone |-> FALSE]

RelayStart ==
    /\ event_queue = <<>>
    /\ requestsInLastSecond = 0
    /\ lastRequestTime = 0
    /\ passes = [p \in Slots |-> IdlePass]

\* new EventTracker(): an empty Map (part_003 line 6) and no timer.
TenantsStart ==
    /\ trackers = <<>>
    /\ shadow = <<>>
    /\ intervals = <<>>

\* The fields of a MavisTracking instance as the constructor sets them
\* before it looks at enableHeartbeat (index.ts lines 83-94). 'root' and null
\* are 0; uuids counts the uuidv4() calls of createBaseEvent, whose results
\* are 1, 2, 3, ...; the session ids are 1, 2, ...
NewSdk ==
    [sessionId |-> 1, lastRef |-> 0, offset |-> 0, queue |-> <<>>,
     flushTimeout |-> 0, heartbeatIntervalId |-> 0, userId |-> 0, uuids |-> 0]

NotShutDown == [phase |-> "running", before |-> {}, ok |-> FALSE]

\* No SDK instance at work: the parts I to IV do not use one.
SdkIdle ==
    /\ sdk = NewSdk
    /\ timers = [next |-> 1, armed |-> {}]
    /\ posts = {}
    /\ life = NotShutDown

ExtStart == TenantsStart /\ SdkIdle

(***************************************************************************)
(* Actions of the in-process aggregator.                                   *)
(***************************************************************************)
Init ==
    /\ tracker = NewTracker(0)
    /\ now = 0
    /\ nextId = 1
    /\ delivered = {}
    /\ RelayStart
    /\ ExtStart

\* POST /track -> EventTracker.startTracking -> ApiKeyTracker.queueEvents,
\* with one or two events in the request body.
StartTracking ==
    /\ nextId <= MaxEvents
    /\ \E k \in 1..2 : \E sz \in [1..k -> EventSizes] :
         /\ nextId + k - 1 <= MaxEvents
         /\ tracker' = queueEvents(tracker,
                          [i \in 1..k |-> [id |-> nextId + i - 1, size |-> sz[i]]])
         /\ nextId' = nextId + k
    /\ UNCHANGED <<now, delivered>>
    /\ UNCHANGED <<redisVars, extVars>>

\* The setInterval callback of EventTracker.startFlushInterval, d after the
\* previous one: flushEvents of the tracker runs up to its first await.
Tick(d) ==
    /\ now + d <= MaxTime
    /\ now' = now + d
    /\ tracker' = flushEventsSync(tracker, now')
    /\ UNCHANGED <<nextId, delivered>>
    /\ UNCHANGED <<redisVars, extVars>>

DeliveredIds == {r.id : r \in delivered}

\* fetch resolves with a response; ok is response.ok.
FetchResolve(b, ok) ==
    /\ b \in tracker.inflight
    /\ b.phase = "fetch"
    /\ tracker' = [tracker EXCEPT !.inflight =
                      (@ \ {b}) \cup {[b EXCEPT !.phase = IF ok THEN "json" ELSE "text"]}]
    /\ delivered' = IF ok
                     THEN delivered \cup
                          {[id |-> a, sentAt |-> b.sentAt] : a \in Ids(b.events) \ DeliveredIds}
                     ELSE delivered
    /\ UNCHANGED <<now, nextId>>
    /\ UNCHANGED <<redisVars, extVars>>

\* fetch rejects (timeout, DNS, connection reset): the catch block runs.
FetchReject(b) ==
    /\ b \in tracker.inflight
    /\ b.phase = "fetch"
    /\ tracker' = [tracker EXCEPT !.inflight = @ \ {b},
                                  !.queue = Requeue(@, b.events)]
    /\ UNCHANGED <<now, nextId, delivered>>
    /\ UNCHANGED <<redisVars, extVars>>

\* response.text() (status not ok) or response.json() (status ok) resolves:
\* sendEvents returns.
BodyRead(b) ==
    /\ b \in tracker.inflight
    /\ b.phase \in {"text", "json"}
    /\ tracker' = [tracker EXCEPT !.inflight = @ \ {b}]
    /\ UNCHANGED <<now, nextId, delivered>>
    /\ UNCHANGED <<redisVars, extVars>>

\* response.text() or response.json() rejects (connection lost while the body
\* is read, or a body that is not JSON): the catch block runs.
BodyThrow(b) ==
    /\ b \in tracker.inflight
    /\ b.phase \in {"text", "json"}
    /\ tracker' = [tracker EXCEPT !.inflight = @ \ {b},
                                  !.queue = Requeue(@, b.events)]
    /\ UNCHANGED <<now, nextId, delivered>>
    /\ UNCHANGED <<redisVars, extVars>>

Next ==
    \/ StartTracking
    \/ \E d \in TickPeriods : Tick(d)
    \/ \E b \in tracker.inflight : \E ok \in BOOLEAN : FetchResolve(b, ok)
    \/ \E b \in tracker.inflight : FetchReject(b)
    \/ \E b \in tracker.inflight : BodyRead(b)
    \/ \E b \in tracker.inflight : BodyThrow(b)

Spec == Init /\ [][Next]_vars

(***************************************************************************)
(* The same tracker under a wall clock that may stand still: one event is  *)
(* queued and the passes of one window follow each other.                  *)
(***************************************************************************)
InitBurst ==
    /\ \E sz \in EventSizes :
         tracker = queueEvents(NewTracker(0), <<[id |-> 1, size |-> sz]>>)
    /\ now = 0
    /\ nextId = 2
    /\ delivered = {}
    /\ RelayStart
    /\ ExtStart

NextBurst ==
    \/ \E d \in StalledPeriods : Tick(d)
    \/ \E b \in tracker.inflight : \E ok \in BOOLEAN : FetchResolve(b, ok)
    \/ \E b \in tracker.inflight : FetchReject(b)
    \/ \E b \in tracker.inflight : BodyRead(b)
    \/ \E b \in tracker.inflight : BodyThrow(b)

SpecBurst == InitBurst /\ [][NextBurst]_vars

(***************************************************************************)
(* Part II: the Redis-backed relay, single-tenant variant.                 *)
(*                                                                         *)
(* Every await of flushEvents is a point where the /track handler and      *)
(* other flushEvents activations may run: setInterval starts a new         *)
(* activation every FLUSH_INTERVAL whether or not the previous one has     *)
(* returned, and a deferred pass arms one more timer for flushEvents.      *)
(* A pass record holds the locals of one activation (eventsToSend,         *)
(* nextEvent, the response's ok) and the await it is suspended at (pc).    *)
(* sentAt and alone are kept for the record only: the time the pass        *)
(* started, and whether nothing but this pass has touched the list since.  *)
(***************************************************************************)
RECURSIVE Reverse(_)
Reverse(s) == IF s = <<>> THEN <<>> ELSE Append(Reverse(Tail(s)), Head(s))

\* Redis RPUSH key v1 v2 ...: the values are appended to the tail one by one.
RPush(list, values) == list \o values

\* Redis LPUSH key v1 v2 ...: the values are inserted at the head one by one,
\* v1 first, so the last value given ends up as the head.
LPush(list, values) == Reverse(values) \o list

\* The list operation of some activation or request disturbs every other pass.
Disturb(ps, self) ==
    [q \in Slots |-> IF q = self THEN ps[q] ELSE [ps[q] EXCEPT !.alone = FALSE]]

\* flushEvents, lines 59-63: the rate check of the relay.
RelayRateLimited(n) == n >= MAX_REQUESTS_PER_SECOND

\* A timer callback (setInterval's, or the setTimeout of a deferred pass), d
\* after the previous one: flushEvents runs to its first await, the lpop.
\* The activation takes the first free slot.
StartPass(p, d) ==
    /\ passes[p].pc = "idle"
    /\ \A q \in Slots : q < p => passes[q].pc # "idle"
    /\ now + d <= MaxTime
    /\ now' = now + d
    /\ LET expired == now' - lastRequestTime >= FLUSH_INTERVAL
           n == IF expired THEN 0 ELSE requestsInLastSecond
       IN  /\ requestsInLastSecond' = n
           /\ lastRequestTime' = IF expired THEN now' ELSE lastRequestTime
           /\ passes' = IF RelayRateLimited(n)
                        THEN passes
                        ELSE [passes EXCEPT ![p] =
                                 [IdlePass EXCEPT !.pc = "lpop", !.sentAt = now',
                                                  !.alone = TRUE]]
    /\ UNCHANGED <<tracker, nextId, delivered, event_queue>>
    /\ UNCHANGED extVars

\* flushEvents, lines 82-101, from the end of the loop to the await of fetch:
\* the pass record after it, and the counter. configured is whether both
\* MAVIS_API_KEY and MAVIS_API_URL are set.
AfterLoop(pass, configured) ==
    IF pass.eventsToSend = <<>> \/ ~configured
    THEN IdlePass
    ELSE [pass EXCEPT !.pc = "fetch", !.nextEvent = <<>>]

CountsRequest(pass, configured) == pass.eventsToSend # <<>> /\ configured

\* lpop is served (lines 69-80).
Lpop(p, configured) ==
    /\ passes[p].pc = "lpop"
    /\ IF event_queue = <<>>
       THEN /\ passes' = [passes EXCEPT ![p] = AfterLoop(@, configured)]
            /\ requestsInLastSecond' =
                  IF CountsRequest(passes[p], configured)
                  THEN requestsInLastSecond + 1 ELSE requestsInLastSecond
            /\ UNCHANGED event_queue
       ELSE LET event == Head(event_queue)
                newSize == calculatePayloadSize(Append(passes[p].eventsToSend, event))
            IN  /\ event_queue' = Tail(event_queue)
                /\ passes' =
                      Disturb([passes EXCEPT ![p] =
                                  IF newSize > MAX_BODY_SIZE
                                  THEN [@ EXCEPT !.pc = "lpush", !.nextEvent = <<event>>]
                                  ELSE [@ EXCEPT !.eventsToSend = Append(@, event)]], p)
                /\ UNCHANGED requestsInLastSecond
    /\ UNCHANGED <<tracker, now, nextId, delivered, lastRequestTime>>
    /\ UNCHANGED extVars

\* The lpush that re-adds the overflowing event is served (line 75); the loop
\* ends.
LpushBack(p, configured) ==
    /\ passes[p].pc = "lpush"
    /\ event_queue' = LPush(event_queue, passes[p].nextEvent)
    /\ passes' = Disturb([passes EXCEPT ![p] = AfterLoop(@, configured)], p)
    /\ requestsInLastSecond' =
          IF CountsRequest(passes[p], configured)
          THEN requestsInLastSecond + 1 ELSE requestsInLastSecond
    /\ UNCHANGED <<tracker, now, nextId, delivered, lastRequestTime>>
    /\ UNCHANGED extVars

\* fetch resolves with a response; ok is response.ok. response.json() is
\* awaited next, whatever the status (line 103).
RelayFetchResolve(p, ok) ==
    /\ passes[p].pc = "fetch"
    /\ passes' = [passes EXCEPT ![p] = [@ EXCEPT !.pc = "json", !.ok = ok]]
    /\ delivered' = IF ok
                     THEN delivered \cup
                          {[id |-> a, sentAt |-> passes[p].sentAt] :
                              a \in Ids(passes[p].eventsToSend) \ DeliveredIds}
                     ELSE delivered
    /\ UNCHANGED <<tracker, now, nextId, event_queue, requestsInLastSecond,
                   lastRequestTime>>
    /\ UNCHANGED extVars

\* fetch rejects: the catch block starts its lpush.
RelayFetchReject(p) ==
    /\ passes[p].pc = "fetch"
    /\ passes' = [passes EXCEPT ![p] = [@ EXCEPT !.pc = "requeue"]]
    /\ UNCHANGED <<tracker, now, nextId, delivered, event_queue,
                   requestsInLastSecond, lastRequestTime>>
    /\ UNCHANGED extVars

\* response.json() resolves. With an ok status the pass is over. Otherwise
\* line 105 calls response.text() on the body json() has consumed, which
\* rejects, and the catch block starts its lpush.
RelayJsonRead(p) ==
    /\ passes[p].pc = "json"
    /\ passes' = [passes EXCEPT ![p] =
                     IF @.ok THEN IdlePass ELSE [@ EXCEPT !.pc = "requeue"]]
    /\ UNCHANGED <<tracker, now, nextId, delivered, event_queue,
                   requestsInLastSecond, lastRequestTime>>
    /\ UNCHANGED extVars

\* response.json() rejects (the body is not JSON, or the connection is lost):
\* the catch block starts its lpush.
RelayJsonThrow(p) ==
    /\ passes[p].pc = "json"
    /\ passes' = [passes EXCEPT ![p] = [@ EXCEPT !.pc = "requeue"]]
    /\ UNCHANGED <<tracker, now, nextId, delivered, event_queue,
                   requestsInLastSecond, lastRequestTime>>
    /\ UNCHANGED extVars

\* The lpush of the catch block is served (line 112):
\* redis.lpush('event_queue', ...eventsToSend.map(JSON.stringify)).
RequeueBatch(p) ==
    /\ passes[p].pc = "requeue"
    /\ event_queue' = LPush(event_queue, passes[p].eventsToSend)
    /\ passes' = Disturb([passes EXCEPT ![p] = IdlePass], p)
    /\ UNCHANGED <<tracker, now, nextId, delivered, requestsInLastSecond,
                   lastRequestTime>>
    /\ UNCHANGED extVars

\* POST /track: redis.rpush('event_queue', ...body.events.map(JSON.stringify)),
\* with one or two events in the request body.
Track ==
    /\ nextId <= MaxEvents
    /\ \E k \in 1..2 : \E sz \in [1..k -> EventSizes] :
         /\ nextId + k - 1 <= MaxEvents
         /\ event_queue' = RPush(event_queue,
                              [i \in 1..k |-> [id |-> nextId + i - 1, size |-> sz[i]]])
         /\ nextId' = nextId + k
    /\ passes' = Disturb(passes, 0)
    /\ UNCHANGED <<tracker, now, delivered, requestsInLastSecond, lastRequestTime>>
    /\ UNCHANGED extVars

NextRedis ==
    \/ Track
    \/ \E p \in Slots : StartPass(p, FLUSH_INTERVAL)
    \/ \E p \in Slots : \E c \in BOOLEAN : Lpop(p, c)
    \/ \E p \in Slots : \E c \in BOOLEAN : LpushBack(p, c)
    \/ \E p \in Slots : \E ok \in BOOLEAN : RelayFetchResolve(p, ok)
    \/ \E p \in Slots : RelayFetchReject(p)
    \/ \E p \in Slots : RelayJsonRead(p)
    \/ \E p \in Slots : RelayJsonThrow(p)
    \/ \E p \in Slots : RequeueBatch(p)

SpecRedis == Init /\ [][NextRedis]_vars

(***************************************************************************)
(* Properties of the in-process aggregator.                                *)
(***************************************************************************)
IsPrefix(s, q) == Len(s) <= Len(q) /\ SubSeq(q, 1, Len(s)) = s

Increasing(s) == \A i, j \in 1..Len(s) : i < j => s[i].id < s[j].id

\* The tracker a flush pass works on after its window check, and whether the
\* pass goes on to build a batch.
PassBuilds(t) == ~RateLimited(ResetWindow(tracker, t))

\* C1: if event A was enqueued before event B and both are delivered with
\* success, A is delivered in the same or an earlier successful batch than B,
\* and inside one batch A comes before B. Ids are given in enqueue order, so:
\* a batch answered with a success status lists its events by increasing id,
\* and no event it delivers for the first time has a smaller id than an event
\* delivered by an earlier batch (a batch that was sent by an earlier pass
\* and answered earlier).
C1_OrderPreserved ==
    [][\A b \in tracker.inflight :
          FetchResolve(b, TRUE) =>
             /\ Increasing(b.events)
             /\ \A a \in Ids(b.events) \ DeliveredIds :
                   \A x \in delivered : x.sentAt < b.sentAt => x.id < a]_vars

\* C2: when sendEvents has received a non-success HTTP status for a batch and
\* returns, the whole batch is at the head of the queue, in the order in which
\* it was sent.
C2_HttpErrorRequeued ==
    [][\A b \in tracker.inflight :
          (b.phase = "text" /\ BodyRead(b)) => IsPrefix(b.events, tracker'.queue)]_vars

\* C3: every batch handed to sendEvents has a wire size (the compact JSON
\* encoding of the event list, brackets and separators included) of at most
\* MAX_BODY_SIZE, unless it is made of one single event.
C3_BatchWithinBodySize ==
    [][\A b \in tracker'.inflight \ tracker.inflight :
          b.phase = "fetch" =>
             \/ calculatePayloadSize(b.events) <= MAX_BODY_SIZE
             \/ Len(b.events) = 1]_vars

\* C4: requestsInLastSecond never exceeds MAX_REQUESTS_PER_SECOND.
C4_RateWithinLimit == tracker.requestsInLastSecond <= MAX_REQUESTS_PER_SECOND

\* C5: an event that was part of a delivery answered with a success status is
\* never in the queue again.
C5_DeliveredNeverRequeued ==
    \A i \in 1..Len(tracker.queue) : tracker.queue[i].id \notin DeliveredIds

\* C6: at most one flush pass of the tenant (its awaited delivery included) is
\* in progress at any time.
C6_SingleFlushInFlight == Cardinality(tracker.inflight) <= 1

\* C7: a flush pass that finds, with its batch still empty, an event at the
\* head of the queue whose own size is above MAX_BODY_SIZE emits that event
\* alone.
C7_OversizedHeadEmitted ==
    [][\A d \in TickPeriods :
          (/\ Tick(d)
           /\ PassBuilds(now')
           /\ tracker.queue # <<>>
           /\ Head(tracker.queue).size > MAX_BODY_SIZE)
          => Pending(<<Head(tracker.queue)>>, "fetch", now') \in tracker'.inflight]_vars

\* C8: the batch a flush pass builds is the longest prefix of the queue whose
\* size (the sum of the sizes of its events, as flushEvents adds them up) is
\* within MAX_BODY_SIZE: the batch handed to sendEvents is a prefix of the
\* queue, exactly its events leave the queue, the rest stays in its order, and
\* the first event that stays would have taken the batch over the limit (by
\* that sum, and so by the wire size too).
C8_LongestPrefix ==
    [][\A d \in TickPeriods :
          (Tick(d) /\ PassBuilds(now')) =>
             LET q == tracker.queue
                 rest == tracker'.queue
                 n == Len(q) - Len(rest)
                 batch == SubSeq(q, 1, n)
             IN  /\ n >= 0
                 /\ rest = SubSeq(q, n + 1, Len(q))
                 /\ SumSizes(batch) <= MAX_BODY_SIZE
                 /\ rest # <<>> =>
                       /\ SumSizes(batch) + Head(rest).size > MAX_BODY_SIZE
                       /\ calculatePayloadSize(Append(batch, Head(rest))) > MAX_BODY_SIZE
                 /\ tracker'.inflight \ tracker.inflight =
                       IF n = 0 THEN {} ELSE {Pending(batch, "fetch", now')}]_vars

\* C8, the scenario of the spec: three queued events of 400,000 bytes each;
\* the pass has sent exactly the first two and the third is still queued.
C8_Witness ==
    /\ tracker.inflight =
          {Pending(<<[id |-> 1, size |-> 400000], [id |-> 2, size |-> 400000]>>,
                   "fetch", now)}
    /\ tracker.queue = <<[id |-> 3, size |-> 400000]>>
    /\ tracker.requestsInLastSecond = 1

\* C9: when sendEvents fails with an exception, the queue afterwards is the
\* failed batch in its order followed by what the queue held at that moment,
\* no event of it twice; the batch's first event is the head of the queue.
C9_ExceptionRequeuesAtHead ==
    [][\A b \in tracker.inflight :
          (FetchReject(b) \/ BodyThrow(b)) =>
             /\ tracker'.queue = b.events \o tracker.queue
             /\ Cardinality(Ids(tracker'.queue)) = Len(tracker'.queue)
             /\ Head(tracker'.queue) = Head(b.events)]_vars

\* C9: the one pass so far has sent a batch (the counter is 1), nothing was
\* delivered, no delivery is in flight, and all three events are in the queue
\* in enqueue order: the catch block has put the batch back in front of the
\* events that were not part of it.
C9_Witness ==
    /\ now = FLUSH_INTERVAL - Jitter
    /\ tracker.requestsInLastSecond = 1
    /\ tracker.inflight = {}
    /\ delivered = {}
    /\ Len(tracker.queue) = 3
    /\ \A i \in 1..3 : tracker.queue[i] = [id |-> i, size |-> 400000]

\* C11: a flush pass that the rate limiter defers (the counter, after the
\* window check, is above the limit the pass applies) leaves the queue as it
\* is, issues no request and does not increment the counter.
C11_DeferralChangesNothing ==
    [][\A d \in StalledPeriods :
          (/\ Tick(d)
           /\ now' - tracker.lastRequestAt < FLUSH_INTERVAL
           /\ tracker.requestsInLastSecond > MAX_REQUESTS_PER_SECOND)
          => /\ tracker'.queue = tracker.queue
             /\ tracker'.inflight = tracker.inflight
             /\ tracker'.requestsInLastSecond = tracker.requestsInLastSecond
             /\ tracker'.lastRequestAt = tracker.lastRequestAt]_vars

\* C11: the counter is above the limit inside a window while an event is
\* queued and no delivery is pending: the passes of this window are deferred
\* and the event stays where it is.
C11_Witness ==
    /\ tracker.requestsInLastSecond > MAX_REQUESTS_PER_SECOND
    /\ tracker.queue # <<>>
    /\ tracker.inflight = {}
    /\ delivered = {}

\* C18: a flush pass sets the counter back to 0 (and the window start to
\* now) exactly when now - lastRequestAt >= FLUSH_INTERVAL; the pass may then
\* count its own request. In every other step the window start stays and
\* the counter stays or grows; it is never negative.
C18_ResetExactlyOnExpiry ==
    [][/\ tracker'.requestsInLastSecond >= 0
       /\ IF now' # now /\ now' - tracker.lastRequestAt >= FLUSH_INTERVAL
          THEN /\ tracker'.lastRequestAt = now'
               /\ tracker'.requestsInLastSecond =
                     IF tracker'.inflight = tracker.inflight THEN 0 ELSE 1
          ELSE /\ tracker'.lastRequestAt = tracker.lastRequestAt
               /\ tracker'.requestsInLastSecond >= tracker.requestsInLastSecond]_vars

\* C18: a pass at exactly FLUSH_INTERVAL after the window start has reset a
\* counter that stood at 1 and has sent nothing.
C18_Witness ==
    /\ now = 2 * FLUSH_INTERVAL
    /\ tracker.lastRequestAt = now
    /\ tracker.requestsInLastSecond = 0
    /\ delivered # {}

(***************************************************************************)
(* Properties of the Redis-backed relay.                                   *)
(***************************************************************************)
\* C10: popping a batch from the head of 'event_queue' and pushing it back
\* after a failed delivery is a round trip: when nothing but the pass has
\* touched the list since the pass started, the list after the push-back has
\* the same items in the same head-to-tail order as when the pass started.
C10_RequeueRoundTrip ==
    [][\A p \in Slots :
          (RequeueBatch(p) /\ passes[p].alone) =>
             event_queue' = passes[p].eventsToSend \o event_queue]_vars

\* C13: a pass that ends because MAVIS_API_KEY or MAVIS_API_URL is not set,
\* with nothing but the pass having touched the list since it started,
\* leaves the list as it was when the pass started: the events it had popped
\* followed by the rest.
C13_MissingConfigKeepsQueue ==
    [][\A p \in Slots :
          (/\ passes[p].pc \in {"lpop", "lpush"}
           /\ passes[p].eventsToSend # <<>>
           /\ passes[p].alone
           /\ passes'[p].pc = "idle")
          => event_queue' = passes[p].eventsToSend \o passes[p].nextEvent \o event_queue]_vars

(***************************************************************************)
(* Part III : EventTracker with several tenants. trackers is the Map       *)
(* api key -> ApiKeyTracker (its domain is the set of keys the Map holds); *)
(* an event carries, for the record, the api key of the /track request     *)
(* that brought it.                                                        *)
(***************************************************************************)
ApiKeys == {"a", "b"}

MaxIntervals == 2       \* calls of startFlushInterval in one behaviour

\* The sizes of the events of Part III: two of them fill a batch.
TenantEventSizes == {500000}

\* new ApiKeyTracker(apiKey), part_003 line 11.
NewApiKeyTracker(apiKey, t) == [apiKey |-> apiKey] @@ NewTracker(t)

\* startTracking without the Map lookup: a new tracker on every call.
startTrackingReplaces(ts, apiKey, events, t) ==
    (apiKey :> queueEvents(NewApiKeyTracker(apiKey, t), events)) @@ ts

\* EventTracker.startTracking, part_003 lines 8-16.
startTracking(ts, apiKey, events, t) ==
    LET tr == IF apiKey \in DOMAIN ts THEN ts[apiKey]
              ELSE NewApiKeyTracker(apiKey, t)
    IN  (apiKey :> queueEvents(tr, events)) @@ ts

\* The callback with a tenant's pass held back while another tenant's
\* delivery is pending.
flushAllInTurn(ts, t) ==
    [k \in DOMAIN ts |->
        IF \E j \in DOMAIN ts \ {k} : ts[j].inflight # {}
        THEN ts[k] ELSE flushEventsSync(ts[k], t)]

\* The setInterval callback, part_003 lines 19-23: forEach starts flushEvents
\* of every tracker; each runs up to its first await before the next starts.
flushAll(ts, t) == [k \in DOMAIN ts |-> flushEventsSync(ts[k], t)]

\* The continuations of sendEvents (ApiKeyTracker lines 56-65) on one tracker.
fetchResolved(tr, b, ok) ==
    [tr EXCEPT !.inflight =
        (@ \ {b}) \cup {[b EXCEPT !.phase = IF ok THEN "json" ELSE "text"]}]

sendEventsReturned(tr, b) == [tr EXCEPT !.inflight = @ \ {b}]

sendEventsCaught(tr, b) ==
    [tr EXCEPT !.inflight = @ \ {b}, !.queue = Requeue(@, b.events)]

notTenantVars == <<tracker, delivered, redisVars, sdkVars>>

\* POST /track with api_key k and one or two events.
TStartTracking(k) ==
    /\ \E n \in 1..2 : \E sz \in [1..n -> TenantEventSizes] :
         /\ nextId + n - 1 <= MaxEvents
         /\ trackers' = startTracking(trackers, k,
                [i \in 1..n |-> [id |-> nextId + i - 1, size |-> sz[i], key |-> k]],
                now)
         /\ nextId' = nextId + n
    /\ UNCHANGED <<now, shadow, intervals, notTenantVars>>

\* EventTracker.startFlushInterval, part_003 lines 18-25.
StartFlushInterval ==
    /\ Len(intervals) < MaxIntervals
    /\ intervals' = Append(intervals, now)
    /\ UNCHANGED <<now, nextId, trackers, shadow, notTenantVars>>

\* The callback of timer i runs, d after its previous run.
TTick(i, d) ==
    /\ i \in DOMAIN intervals
    /\ intervals[i] + d >= now
    /\ intervals[i] + d <= MaxTime
    /\ now' = intervals[i] + d
    /\ intervals' = [intervals EXCEPT ![i] = now']
    /\ trackers' = flushAll(trackers, now')
    /\ UNCHANGED <<nextId, shadow, notTenantVars>>

TFetchResolve(k, b, ok) ==
    /\ b \in trackers[k].inflight
    /\ b.phase = "fetch"
    /\ trackers' = [trackers EXCEPT ![k] = fetchResolved(@, b, ok)]
    /\ UNCHANGED <<now, nextId, shadow, intervals, notTenantVars>>

TFetchReject(k, b) ==
    /\ b \in trackers[k].inflight
    /\ b.phase = "fetch"
    /\ trackers' = [trackers EXCEPT ![k] = sendEventsCaught(@, b)]
    /\ UNCHANGED <<now, nextId, shadow, intervals, notTenantVars>>

TBodyRead(k, b) ==
    /\ b \in trackers[k].inflight
    /\ b.phase \in {"text", "json"}
    /\ trackers' = [trackers EXCEPT ![k] = sendEventsReturned(@, b)]
    /\ UNCHANGED <<now, nextId, shadow, intervals, notTenantVars>>

TBodyThrow(k, b) ==
    /\ b \in trackers[k].inflight
    /\ b.phase \in {"text", "json"}
    /\ trackers' = [trackers EXCEPT ![k] = sendEventsCaught(@, b)]
    /\ UNCHANGED <<now, nextId, shadow, intervals, notTenantVars>>

NextTenants ==
    \/ \E k \in ApiKeys : TStartTracking(k)
    \/ StartFlushInterval
    \/ \E i \in DOMAIN intervals : TTick(i, FLUSH_INTERVAL)
    \/ \E k \in DOMAIN trackers : \E b \in trackers[k].inflight :
         \E ok \in BOOLEAN : TFetchResolve(k, b, ok)
    \/ \E k \in DOMAIN trackers : \E b \in trackers[k].inflight : TFetchReject(k, b)
    \/ \E k \in DOMAIN trackers : \E b \in trackers[k].inflight : TBodyRead(k, b)
    \/ \E k \in DOMAIN trackers : \E b \in trackers[k].inflight : TBodyThrow(k, b)

SpecTenants == Init /\ [][NextTenants]_vars

\* C16: startTracking is a getOrCreate. A call with a key the Map holds keeps
\* the Map's keys and every other tracker, keeps the tracker's api key,
\* counter, window start and pending deliveries, and appends the events of
\* the request, in request order, to the tail of its queue; a call with a new
\* key adds one tracker whose queue is the events of the request.
C16_GetOrCreate ==
    [][\A k \in ApiKeys :
          TStartTracking(k) =>
             LET old == IF k \in DOMAIN trackers THEN trackers[k].queue ELSE <<>>
                 new == trackers'[k].queue
             IN  /\ DOMAIN trackers' = DOMAIN trackers \cup {k}
                 /\ \A j \in DOMAIN trackers \ {k} : trackers'[j] = trackers[j]
                 /\ IsPrefix(old, new)
                 /\ Len(new) = Len(old) + (nextId' - nextId)
                 /\ \A i \in 1..(nextId' - nextId) :
                       new[Len(old) + i].id = nextId + i - 1
                 /\ k \in DOMAIN trackers =>
                       trackers'[k] = [trackers[k] EXCEPT !.queue = new]]_vars

\* C16: a tracker that has sent a batch of one event (so its queue held
\* nothing else at that pass) and whose counter stands at 1 has events in
\* its queue: a later call with the same key has appended them.
C16_Witness ==
    \E k \in DOMAIN trackers :
        /\ trackers[k].requestsInLastSecond = 1
        /\ trackers[k].queue # <<>>
        /\ \E b \in trackers[k].inflight : Len(b.events) = 1

\* C17: calling startFlushInterval more than once is as calling it once: the
\* callbacks that start the tenants' passes are never less than FLUSH_INTERVAL
\* (minus the timer jitter) apart.
C17_OnePassPerInterval ==
    [][\A i \in DOMAIN intervals :
          TTick(i, FLUSH_INTERVAL) => now' - now >= FLUSH_INTERVAL - Jitter]_vars

(***************************************************************************)
(* Two runs of the aggregator side by side: trackers is the Map of the     *)
(* first run, shadow the Map of the second. Both runs get the same /track  *)
(* requests and the same timer callbacks, and tenant Y's deliveries end    *)
(* the same way in both; tenant X's deliveries end in each run on their    *)
(* own.                                                                    *)
(***************************************************************************)
TenantX == "a"
TenantY == "b"

InitIso ==
    /\ tracker = NewTracker(0)
    /\ now = 0
    /\ nextId = 1
    /\ delivered = {}
    /\ RelayStart
    /\ trackers = <<>>
    /\ shadow = <<>>
    /\ intervals = <<0>>
    /\ SdkIdle

IsoStartTracking(k) ==
    /\ \E n \in 1..2 : \E sz \in [1..n -> TenantEventSizes] :
         LET events == [i \in 1..n |->
                          [id |-> nextId + i - 1, size |-> sz[i], key |-> k]]
         IN  /\ nextId + n - 1 <= MaxEvents
             /\ trackers' = startTracking(trackers, k, events, now)
             /\ shadow' = startTracking(shadow, k, events, now)
             /\ nextId' = nextId + n
    /\ UNCHANGED <<now, intervals, notTenantVars>>

IsoTick(d) ==
    /\ intervals[1] + d <= MaxTime
    /\ now' = intervals[1] + d
    /\ intervals' = [intervals EXCEPT ![1] = now']
    /\ trackers' = flushAll(trackers, now')
    /\ shadow' = flushAll(shadow, now')
    /\ UNCHANGED <<nextId, notTenantVars>>

\* The outcomes of a suspended sendEvents call b of tracker tr.
Outcomes == {"ok", "status", "reject", "read", "throw"}

Continue(tr, b, o) ==
    IF o \in {"ok", "status"} /\ b.phase = "fetch" THEN fetchResolved(tr, b, o = "ok")
    ELSE IF o = "reject" /\ b.phase = "fetch" THEN sendEventsCaught(tr, b)
    ELSE IF o = "read" /\ b.phase # "fetch" THEN sendEventsReturned(tr, b)
    ELSE IF o = "throw" /\ b.phase # "fetch" THEN sendEventsCaught(tr, b)
    ELSE tr

\* A delivery of tenant Y goes on, the same way in both runs.
IsoDeliverY(b, o) ==
    /\ TenantY \in DOMAIN trackers /\ TenantY \in DOMAIN shadow
    /\ b \in trackers[TenantY].inflight
    /\ b \in shadow[TenantY].inflight
    /\ Continue(trackers[TenantY], b, o) # trackers[TenantY]
    /\ trackers' = [trackers EXCEPT ![TenantY] = Continue(@, b, o)]
    /\ shadow' = [shadow EXCEPT ![TenantY] = Continue(@, b, o)]
    /\ UNCHANGED <<now, nextId, intervals, notTenantVars>>

\* A delivery of tenant X goes on in the first run.
IsoDeliverX1(b, o) ==
    /\ TenantX \in DOMAIN trackers
    /\ b \in trackers[TenantX].inflight
    /\ Continue(trackers[TenantX], b, o) # trackers[TenantX]
    /\ trackers' = [trackers EXCEPT ![TenantX] = Continue(@, b, o)]
    /\ UNCHANGED <<now, nextId, shadow, intervals, notTenantVars>>

\* A delivery of tenant X goes on in the second run.
IsoDeliverX2(b, o) ==
    /\ TenantX \in DOMAIN shadow
    /\ b \in shadow[TenantX].inflight
    /\ Continue(shadow[TenantX], b, o) # shadow[TenantX]
    /\ shadow' = [shadow EXCEPT ![TenantX] = Continue(@, b, o)]
    /\ UNCHANGED <<now, nextId, trackers, intervals, notTenantVars>>

InflightOf(ts, k) == IF k \in DOMAIN ts THEN ts[k].inflight ELSE {}

NextIso ==
    \/ \E k \in ApiKeys : IsoStartTracking(k)
    \/ IsoTick(FLUSH_INTERVAL)
    \/ \E b \in InflightOf(trackers, TenantY) : \E o \in Outcomes : IsoDeliverY(b, o)
    \/ \E b \in InflightOf(trackers, TenantX) : \E o \in Outcomes : IsoDeliverX1(b, o)
    \/ \E b \in InflightOf(shadow, TenantX) : \E o \in Outcomes : IsoDeliverX2(b, o)

SpecIso == InitIso /\ [][NextIso]_vars

\* C12: on every tick each known tenant gets its own pass, and two runs with
\* the same enqueues and ticks that differ only in how tenant X's deliveries
\* end show the same tenant Y at every moment: the same queue, the same
\* batches sent at the same ticks, the same counter and window.
C12_TenantIsolation ==
    /\ DOMAIN trackers = DOMAIN shadow
    /\ TenantY \in DOMAIN trackers => trackers[TenantY] = shadow[TenantY]

\* C12: tenant X's queue differs between the two runs (its batch was put
\* back in one run and not in the other) while tenant Y has a batch in
\* flight that was sent after that.
C12_Witness ==
    /\ TenantX \in DOMAIN trackers /\ TenantY \in DOMAIN trackers
    /\ trackers[TenantX].queue # shadow[TenantX].queue
    /\ \E b \in trackers[TenantY].inflight : b.sentAt = now /\ now >= 2 * FLUSH_INTERVAL

(***************************************************************************)
(* Part IV : the Redis-backed relay, multi-tenant variant (part_002). An   *)
(* item of 'event_queue' is a QueuedEvent {api_key, event}; the event      *)
(* carries, for the record, the api key of the /track request that brought *)
(* it. The list, the counter, the window start and the activations are the *)
(* variables of Part II.                                                   *)
(***************************************************************************)
\* The sizes of the events of Part IV: two of them fit into a batch.
MtEventSizes == {400000}

QueuedEvent(apiKey, event) == [api_key |-> apiKey, event |-> event]

EventsOf(items) == [i \in 1..Len(items) |-> items[i].event]

\* The keys of groupedEvents in the order for...in visits them: the order in
\* which the grouping loop created them.
RECURSIVE KeysInOrder(_, _)
KeysInOrder(items, seen) ==
    IF items = <<>> THEN <<>>
    ELSE IF Head(items).api_key \in seen THEN KeysInOrder(Tail(items), seen)
    ELSE <<Head(items).api_key>> \o
         KeysInOrder(Tail(items), seen \cup {Head(items).api_key})

\* The grouping with every event of the batch filed under the api key of the
\* batch's first item.
groupEventsUnderFirstKey(items) ==
    IF items = <<>> THEN <<>>
    ELSE <<[apiKey |-> items[1].api_key, events |-> EventsOf(items)]>>

\* flushEvents, lines 65-72: group the popped events by api key.
groupEvents(items) ==
    LET ks == KeysInOrder(items, {})
    IN  [i \in 1..Len(ks) |->
            LET OfKey(q) == q.api_key = ks[i]
            IN  [apiKey |-> ks[i], events |-> EventsOf(SelectSeq(items, OfKey))]]

MtIdlePass ==
    [pc |-> "idle", eventsToSend |-> <<>>, nextEvent |-> <<>>, groups |-> <<>>]

\* The activation after the loop, or after a sendEvents call has returned:
\* sendEvents is called for the first group left (lines 74-76, 81-83) and runs
\* to its await of fetch, or the activation ends. sendEvents counts the
\* request and does not look at the counter.
MtSendNext(pass, groups) ==
    IF groups = <<>> THEN MtIdlePass
    ELSE [pass EXCEPT !.pc = "fetch", !.groups = groups, !.nextEvent = <<>>]

MtCounts(groups) == groups # <<>>

InitMt ==
    /\ tracker = NewTracker(0)
    /\ now = 0
    /\ nextId = 1
    /\ delivered = {}
    /\ event_queue = <<>>
    /\ requestsInLastSecond = 0
    /\ lastRequestTime = 0
    /\ passes = [p \in Slots |-> MtIdlePass]
    /\ ExtStart

notRelayVars == <<tracker, delivered, extVars>>

\* The setInterval callback (or the setTimeout of a deferred pass), d after
\* the previous one: flushEvents, lines 33-50, runs to its first lpop.
MtStartPass(p, d) ==
    /\ passes[p].pc = "idle"
    /\ \A q \in Slots : q < p => passes[q].pc # "idle"
    /\ now + d <= MaxTime
    /\ now' = now + d
    /\ LET expired == now' - lastRequestTime >= FLUSH_INTERVAL
           n == IF expired THEN 0 ELSE requestsInLastSecond
       IN  /\ requestsInLastSecond' = n
           /\ lastRequestTime' = IF expired THEN now' ELSE lastRequestTime
           /\ passes' = IF RelayRateLimited(n) THEN passes
                        ELSE [passes EXCEPT ![p] = [MtIdlePass EXCEPT !.pc = "lpop"]]
    /\ UNCHANGED <<nextId, event_queue, notRelayVars>>

\* lpop is served (lines 50-62).
MtLpop(p) ==
    /\ passes[p].pc = "lpop"
    /\ IF event_queue = <<>>
       THEN LET groups == groupEvents(passes[p].eventsToSend)
            IN  /\ passes' = [passes EXCEPT ![p] = MtSendNext(@, groups)]
                /\ requestsInLastSecond' =
                      IF MtCounts(groups) THEN requestsInLastSecond + 1
                      ELSE requestsInLastSecond
                /\ UNCHANGED event_queue
       ELSE LET queuedEvent == Head(event_queue)
                newSize == calculatePayloadSize(
                              Append(EventsOf(passes[p].eventsToSend), queuedEvent.event))
            IN  /\ event_queue' = Tail(event_queue)
                /\ passes' = [passes EXCEPT ![p] =
                                 IF newSize > MAX_BODY_SIZE
                                 THEN [@ EXCEPT !.pc = "lpush", !.nextEvent = <<queuedEvent>>]
                                 ELSE [@ EXCEPT !.eventsToSend = Append(@, queuedEvent)]]
                /\ UNCHANGED requestsInLastSecond
    /\ UNCHANGED <<now, nextId, lastRequestTime, notRelayVars>>

\* The lpush that re-adds the overflowing item is served (line 56).
MtLpushBack(p) ==
    /\ passes[p].pc = "lpush"
    /\ event_queue' = LPush(event_queue, passes[p].nextEvent)
    /\ LET groups == groupEvents(passes[p].eventsToSend)
       IN  /\ passes' = [passes EXCEPT ![p] = MtSendNext(@, groups)]
           /\ requestsInLastSecond' =
                 IF MtCounts(groups) THEN requestsInLastSecond + 1
                 ELSE requestsInLastSecond
    /\ UNCHANGED <<now, nextId, lastRequestTime, notRelayVars>>

\* fetch resolves; ok is response.ok.
MtFetchResolve(p, ok) ==
    /\ passes[p].pc = "fetch"
    /\ passes' = [passes EXCEPT ![p] = [@ EXCEPT !.pc = IF ok THEN "json" ELSE "text"]]
    /\ UNCHANGED <<now, nextId, event_queue, requestsInLastSecond, lastRequestTime,
                   notRelayVars>>

\* fetch rejects: the catch block starts its lpush.
MtFetchReject(p) ==
    /\ passes[p].pc = "fetch"
    /\ passes' = [passes EXCEPT ![p] = [@ EXCEPT !.pc = "requeue"]]
    /\ UNCHANGED <<now, nextId, event_queue, requestsInLastSecond, lastRequestTime,
                   notRelayVars>>

\* response.text() or response.json() resolves: sendEvents returns and the
\* loop of lines 74-76 goes on with the next group.
MtBodyRead(p) ==
    /\ passes[p].pc \in {"text", "json"}
    /\ LET groups == Tail(passes[p].groups)
       IN  /\ passes' = [passes EXCEPT ![p] = MtSendNext(@, groups)]
           /\ requestsInLastSecond' =
                 IF MtCounts(groups) THEN requestsInLastSecond + 1
                 ELSE requestsInLastSecond
    /\ UNCHANGED <<now, nextId, event_queue, lastRequestTime, notRelayVars>>

\* response.text() or response.json() rejects: the catch block starts its lpush.
MtBodyThrow(p) ==
    /\ passes[p].pc \in {"text", "json"}
    /\ passes' = [passes EXCEPT ![p] = [@ EXCEPT !.pc = "requeue"]]
    /\ UNCHANGED <<now, nextId, event_queue, requestsInLastSecond, lastRequestTime,
                   notRelayVars>>

\* The items the catch block pushes (lines 99-102):
\* events.map(event => JSON.stringify({api_key: apiKey, event})).
RequeuedItems(pass) ==
    [i \in 1..Len(Head(pass.groups).events) |->
        QueuedEvent(Head(pass.groups).apiKey, Head(pass.groups).events[i])]

\* The lpush of the catch block is served; sendEvents returns and the loop
\* goes on with the next group.
MtRequeue(p) ==
    /\ passes[p].pc = "requeue"
    /\ event_queue' = LPush(event_queue, RequeuedItems(passes[p]))
    /\ LET groups == Tail(passes[p].groups)
       IN  /\ passes' = [passes EXCEPT ![p] = MtSendNext(@, groups)]
           /\ requestsInLastSecond' =
                 IF MtCounts(groups) THEN requestsInLastSecond + 1
                 ELSE requestsInLastSecond
    /\ UNCHANGED <<now, nextId, lastRequestTime, notRelayVars>>

\* POST /track with api_key k and one or two events (lines 112-129).
MtTrack(k) ==
    /\ \E n \in 1..2 : \E sz \in [1..n -> MtEventSizes] :
         /\ nextId + n - 1 <= MaxEvents
         /\ event_queue' = RPush(event_queue,
               [i \in 1..n |->
                   QueuedEvent(k, [id |-> nextId + i - 1, size |-> sz[i], key |-> k])])
         /\ nextId' = nextId + n
    /\ UNCHANGED <<now, requestsInLastSecond, lastRequestTime, passes, notRelayVars>>

NextMt ==
    \/ \E k \in ApiKeys : MtTrack(k)
    \/ \E p \in Slots : MtStartPass(p, FLUSH_INTERVAL)
    \/ \E p \in Slots : MtLpop(p)
    \/ \E p \in Slots : MtLpushBack(p)
    \/ \E p \in Slots : \E ok \in BOOLEAN : MtFetchResolve(p, ok)
    \/ \E p \in Slots : MtFetchReject(p)
    \/ \E p \in Slots : MtBodyRead(p)
    \/ \E p \in Slots : MtBodyThrow(p)
    \/ \E p \in Slots : MtRequeue(p)

SpecMt == InitMt /\ [][NextMt]_vars

\* The same relay under a wall clock that may stand still, with one
\* activation at a time: a callback runs when the previous pass is over.
NextMtBurst ==
    \/ \E k \in ApiKeys : MtTrack(k)
    \/ \E d \in StalledPeriods : MtStartPass(1, d)
    \/ MtLpop(1)
    \/ MtLpushBack(1)
    \/ \E ok \in BOOLEAN : MtFetchResolve(1, ok)
    \/ MtFetchReject(1)
    \/ MtBodyRead(1)
    \/ MtBodyThrow(1)
    \/ MtRequeue(1)

SpecMtBurst == InitMt /\ [][NextMtBurst]_vars

\* C14: in the multi-tenant relay the number of sendEvents calls counted in
\* one fixed window never exceeds MAX_REQUESTS_PER_SECOND, however many api
\* keys occur in the popped events.
C14_RequestsWithinLimit == requestsInLastSecond <= MAX_REQUESTS_PER_SECOND

(***************************************************************************)
(* A deployment of either multi-tenant variant: the relay on the shared    *)
(* Redis queue, or the aggregator with its per-tenant trackers, whose      *)
(* index module starts the flush scheduler before it serves a request.     *)
(***************************************************************************)
NextEither ==
    \/ intervals = <<>> /\ NextMt
    \/ nextId = 1 /\ now = 0 /\ StartFlushInterval
    \/ intervals # <<>> /\ NextTenants

SpecEither == InitMt /\ [][NextEither]_vars

EventsIn(items) == {items[i] : i \in 1..Len(items)}

\* C15: an event is only ever held for, and sent in a request of, the api key
\* it was submitted with. In the relay every item of the list and of a pass
\* carries the api key of its event's /track request, and every group (the
\* first group is the request in flight) holds only events of its api key; in
\* the aggregator a tracker's queue and its requests in flight hold only
\* events submitted with the tracker's api key.
C15_AttributionPreserved ==
    /\ \A q \in EventsIn(event_queue) : q.api_key = q.event.key
    /\ \A p \in Slots :
          /\ \A q \in EventsIn(passes[p].eventsToSend) \cup EventsIn(passes[p].nextEvent) :
                q.api_key = q.event.key
          /\ \A g \in EventsIn(passes[p].groups) :
                \A e \in EventsIn(g.events) : e.key = g.apiKey
    /\ \A k \in DOMAIN trackers :
          /\ trackers[k].apiKey = k
          /\ \A e \in EventsIn(trackers[k].queue) : e.key = trackers[k].apiKey
          /\ \A b \in trackers[k].inflight :
                \A e \in EventsIn(b.events) : e.key = trackers[k].apiKey

\* C15: the relay has popped the events of two api keys in one pass, has put
\* the events of the first back after its request failed, and is sending the
\* group of the second.
C15_Witness ==
    \E p \in Slots :
        /\ passes[p].pc = "fetch"
        /\ Len(passes[p].groups) = 1
        /\ Len(passes[p].eventsToSend) = 2
        /\ passes[p].eventsToSend[1].api_key # passes[p].eventsToSend[2].api_key
        /\ passes[p].eventsToSend[1] \in EventsIn(event_queue)

(***************************************************************************)
(* Part V : the client SDK, class MavisTracking (src/src/index.ts).        *)
(* An event is [type, uuid, ref, offset, session_id, user_id]. A timer     *)
(* handle is a number 1, 2, ...; a POST in flight is [events, by], by      *)
(* naming the caller of postEvents: the flush of a timer, the flush of     *)
(* shutdown, or sendEvent (heartbeat).                                     *)
(***************************************************************************)
MaxUuids == 4           \* uuidv4() calls of createBaseEvent in one behaviour
MaxSessions == 2        \* sessions (1 + resetSession calls) in one behaviour

\* createBaseEvent, lines 102-115: the event and the instance after the call.
createBaseEvent(s) ==
    [event |-> [uuid |-> s.uuids + 1, ref |-> s.lastRef, offset |-> s.offset,
                session_id |-> s.sessionId, user_id |-> s.userId],
     sdk |-> [s EXCEPT !.uuids = @ + 1, !.offset = @ + 1, !.lastRef = s.uuids + 1]]

\* track, screen and heartbeat build their event from two createBaseEvent
\* calls; the data of the second call is the data of the event
\* (lines 123-130, 217-225, 230-238).
createTwice(s) == createBaseEvent(createBaseEvent(s).sdk)

\* The event a caller builds from createBaseEvent's data: its type is
\* 'identify', 'screen' or 'track' (the heartbeat is a 'track' event).
Typed(type, data) == [type |-> type] @@ data

\* setTimeout / setInterval: a fresh handle, armed.
Arm(tm) == [next |-> tm.next + 1, armed |-> tm.armed \cup {tm.next}]

\* clearTimeout / clearInterval.
Clear(tm, h) == [tm EXCEPT !.armed = @ \ {h}]

\* queueEvent with a scheduleFlush that arms a timer at every call.
queueEventAlwaysArms(s, tm, event) ==
    [sdk |-> [s EXCEPT !.queue = Append(@, event), !.flushTimeout = tm.next],
     timers |-> Arm(tm)]

\* queueEvent (lines 117-120) with scheduleFlush (lines 139-143).
queueEvent(s, tm, event) ==
    [sdk |-> [s EXCEPT !.queue = Append(@, event),
                       !.flushTimeout = IF @ = 0 THEN tm.next ELSE @],
     timers |-> IF s.flushTimeout = 0 THEN Arm(tm) ELSE tm]

\* new MavisTracking(apiKey, options): with the heartbeat enabled (the
\* default) startHeartbeat sends a first heartbeat and arms the interval
\* (lines 96-99, 134-137).
InitSdk ==
    /\ tracker = NewTracker(0)
    /\ now = 0
    /\ nextId = 1
    /\ delivered = {}
    /\ RelayStart
    /\ TenantsStart
    /\ life = NotShutDown
    /\ \E enableHeartbeat \in BOOLEAN :
         IF enableHeartbeat
         THEN LET c == createTwice(NewSdk)
              IN  /\ sdk = [c.sdk EXCEPT !.heartbeatIntervalId = 1]
                  /\ timers = [next |-> 2, armed |-> {1}]
                  /\ posts = {[events |-> <<Typed("track", c.event)>>, by |-> "sendEvent"]}
         ELSE /\ sdk = NewSdk
              /\ timers = [next |-> 1, armed |-> {}]
              /\ posts = {}

notSdkVars == <<tracker, now, nextId, delivered, redisVars, tenantVars>>

\* identify (lines 197-214): one createBaseEvent call.
Identify ==
    /\ sdk.uuids + 1 <= MaxUuids
    /\ LET c == createBaseEvent([sdk EXCEPT !.userId = 1])
           q == queueEvent(c.sdk, timers, Typed("identify", c.event))
       IN  sdk' = q.sdk /\ timers' = q.timers
    /\ UNCHANGED <<posts, life, notSdkVars>>

\* track (lines 229-240).
TrackAction ==
    /\ sdk.uuids + 2 <= MaxUuids
    /\ LET c == createTwice(sdk)
           q == queueEvent(c.sdk, timers, Typed("track", c.event))
       IN  sdk' = q.sdk /\ timers' = q.timers
    /\ UNCHANGED <<posts, life, notSdkVars>>

\* screen (lines 216-227).
Screen ==
    /\ sdk.uuids + 2 <= MaxUuids
    /\ LET c == createTwice(sdk)
           q == queueEvent(c.sdk, timers, Typed("screen", c.event))
       IN  sdk' = q.sdk /\ timers' = q.timers
    /\ UNCHANGED <<posts, life, notSdkVars>>

\* resetSession that also empties the queue.
ResetSessionDropsQueue ==
    /\ sdk.sessionId < MaxSessions
    /\ sdk' = [sdk EXCEPT !.sessionId = @ + 1, !.lastRef = 0, !.offset = 0,
                          !.userId = 0, !.queue = <<>>]
    /\ UNCHANGED <<timers, posts, life, notSdkVars>>

\* resetSession (lines 242-248).
ResetSession ==
    /\ sdk.sessionId < MaxSessions
    /\ sdk' = [sdk EXCEPT !.sessionId = @ + 1, !.lastRef = 0, !.offset = 0,
                          !.userId = 0]
    /\ UNCHANGED <<timers, posts, life, notSdkVars>>

\* flush (lines 182-189) up to its await: the instance and the POSTs after it.
flushStart(s, ps, by) ==
    IF s.queue = <<>> THEN [sdk |-> s, posts |-> ps]
    ELSE [sdk |-> [s EXCEPT !.queue = <<>>, !.flushTimeout = 0],
          posts |-> ps \cup {[events |-> s.queue, by |-> by]}]

\* The callback of the flush timer h runs: flush().
FlushTimerFires(h) ==
    /\ h \in timers.armed
    /\ h # sdk.heartbeatIntervalId
    /\ timers' = Clear(timers, h)
    /\ LET f == flushStart(sdk, posts, "timer")
       IN  sdk' = f.sdk /\ posts' = f.posts
    /\ UNCHANGED <<life, notSdkVars>>

\* The callback of the heartbeat interval runs: heartbeat() (lines 122-132).
HeartbeatFires ==
    /\ sdk.heartbeatIntervalId \in timers.armed
    /\ sdk.uuids + 2 <= MaxUuids
    /\ LET c == createTwice(sdk)
       IN  /\ sdk' = c.sdk
           /\ posts' = posts \cup
                  {[events |-> <<Typed("track", c.event)>>, by |-> "sendEvent"]}
    /\ UNCHANGED <<timers, life, notSdkVars>>

\* The catch block of flush (lines 190-194).
requeueFailed(s, events) == [s EXCEPT !.queue = events \o @]

\* The POST p completes: fetch resolved with an ok status (ok), or it
\* resolved with another status or rejected, and postEvents throws. flush puts
\* the events back; sendEvent only logs. The flush of shutdown is what
\* shutdown awaits: with it shutdown resolves.
PostCompletes(p, ok) ==
    /\ p \in posts
    /\ posts' = posts \ {p}
    /\ sdk' = IF ok \/ p.by = "sendEvent" THEN sdk ELSE requeueFailed(sdk, p.events)
    /\ life' = IF p.by = "shutdown"
               THEN [life EXCEPT !.phase = "stopped", !.ok = ok]
               ELSE life
    /\ UNCHANGED <<timers, notSdkVars>>

\* shutdown (lines 250-258), called once: clear the timers whose handles the
\* fields hold, then flush. With an empty queue flush returns at once and so
\* does shutdown.
Shutdown ==
    /\ life.phase = "running"
    /\ timers' = Clear(Clear(timers, sdk.flushTimeout), sdk.heartbeatIntervalId)
    /\ LET f == flushStart(sdk, posts, "shutdown")
       IN  /\ sdk' = f.sdk
           /\ posts' = f.posts
           /\ life' = [phase |-> IF sdk.queue = <<>> THEN "stopped" ELSE "stopping",
                       before |-> {e.uuid : e \in EventsIn(sdk.queue)} \cup
                                  UNION {{e.uuid : e \in EventsIn(p.events)} :
                                            p \in {r \in posts : r.by # "sendEvent"}},
                       ok |-> FALSE]
    /\ UNCHANGED notSdkVars

NextSdk ==
    \/ Identify
    \/ TrackAction
    \/ Screen
    \/ ResetSession
    \/ \E h \in timers.armed : FlushTimerFires(h)
    \/ HeartbeatFires
    \/ \E p \in posts : \E ok \in BOOLEAN : PostCompletes(p, ok)
    \/ Shutdown

SpecSdk == InitSdk /\ [][NextSdk]_vars

\* C19: while the instance has not been shut down, a non-empty queue always
\* comes with a flush in flight or a pending flush timer, so that the queued
\* events (those put back after a failed flush too) are sent again without
\* another identify/track/screen call.
C19_QueuedEventsKeepBeingSent ==
    (life.phase = "running" /\ sdk.queue # <<>>) =>
        \/ \E p \in posts : p.by = "timer"
        \/ \E h \in timers.armed : h # sdk.heartbeatIntervalId

\* C20: once shutdown() has resolved with the POST of its own flush answered
\* with success, and no POST is in flight any more, the queue holds no event
\* that was queued before the shutdown() call.
C20_ShutdownSendsAllQueued ==
    (life.phase = "stopped" /\ life.ok /\ posts = {}) =>
        \A e \in EventsIn(sdk.queue) : e.uuid \notin life.before

\* C21: after shutdown() has been called the instance is stopped: whatever is
\* called or fires afterwards, no flush timer and no heartbeat timer is armed
\* and no POST is started (the POSTs in flight are those of before the call
\* and the one of shutdown's own flush).
C21_StoppedAfterShutdown ==
    [][life.phase # "running" => (timers'.armed = {} /\ posts' \subseteq posts)]_vars

\* The events the instance holds: in its queue and in its POSTs in flight.
HeldEvents == EventsIn(sdk.queue) \cup UNION {EventsIn(p.events) : p \in posts}

\* C22: resetSession changes only the session fields. The step that changes
\* the session id leaves the queue, the flushTimeout field, the timers and the
\* POSTs in flight as they are (so the events queued before it keep the
\* session_id they were created with), its new session id is the one of no
\* event held, and in every step an event that is new carries the session
\* id the instance has after the step.
C22_ResetSessionChangesSessionOnly ==
    [][/\ sdk'.sessionId # sdk.sessionId =>
            /\ sdk'.queue = sdk.queue
            /\ sdk'.flushTimeout = sdk.flushTimeout
            /\ sdk'.heartbeatIntervalId = sdk.heartbeatIntervalId
            /\ timers' = timers
            /\ posts' = posts
            /\ \A e \in HeldEvents : e.session_id # sdk'.sessionId
       /\ \A e \in HeldEvents' \ HeldEvents : e.session_id = sdk'.sessionId
      ]_vars

\* C22: the queue holds an event of the first session before an event of the
\* second, a flush timer pending: resetSession was called between the two.
C22_Witness ==
    /\ Len(sdk.queue) = 2
    /\ sdk.queue[1].session_id = 1
    /\ sdk.queue[2].session_id = 2
    /\ sdk.sessionId = 2
    /\ sdk.flushTimeout \in timers.armed

\* C23: a flush pass of ApiKeyTracker on an empty queue issues no request and
\* spends no rate budget: no sendEvents call is started, the queue stays
\* empty, and the counter after the pass is the one the window check at its
\* start leaves (0 if the window has expired, the old value otherwise), hence
\* never above the value before the pass.
C23_EmptyPassSpendsNothing ==
    [][\A d \in StalledPeriods :
          (Tick(d) /\ tracker.queue = <<>>) =>
              /\ tracker'.inflight = tracker.inflight
              /\ tracker'.queue = <<>>
              /\ tracker'.requestsInLastSecond =
                     IF now' - tracker.lastRequestAt >= FLUSH_INTERVAL
                     THEN 0 ELSE tracker.requestsInLastSecond
              /\ tracker'.requestsInLastSecond <= tracker.requestsInLastSecond
      ]_vars

\* C23: the only event was sent by the pass at time 0 and delivered; a later
\* pass, on the empty queue, has restarted the window and left the counter
\* at 0 with nothing in flight.
C23_Witness ==
    /\ tracker.queue = <<>>
    /\ tracker.inflight = {}
    /\ delivered # {}
    /\ \A r \in delivered : r.sentAt = 0
    /\ now >= FLUSH_INTERVAL
    /\ tracker.lastRequestAt = now
    /\ tracker.requestsInLastSecond = 0

\* C24: in the Redis-backed relay, whatever the interleaving of two flush
\* passes and of the inbound rpush calls, the batch a pass has popped is a
\* contiguous run of the list in enqueue order: each of its events was
\* enqueued right after the one before it.
C24_BatchIsContiguousRun ==
    \A p \in Slots :
        \A i \in 1..(Len(passes[p].eventsToSend) - 1) :
            passes[p].eventsToSend[i + 1].event.id = passes[p].eventsToSend[i].event.id + 1

\* The POSTs of flush in flight (sendEvent's heartbeats never enter the queue).
FlushPosts == {p \in posts : p.by # "sendEvent"}

\* C25: after every sequence of identify/track/screen calls, timer firings
\* and flush completions, two flushes in flight together included, the queue
\* holds its events in the order in which they were first queued (the uuids
\* 1, 2, 3, ... are handed out in that order), and no event is held twice
\* across the queue and the batches in flight.
C25_QueueKeepsOriginalOrder ==
    /\ \A i, j \in 1..Len(sdk.queue) :
          i < j => sdk.queue[i].uuid < sdk.queue[j].uuid
    /\ \A p \in FlushPosts : EventsIn(p.events) \cap EventsIn(sdk.queue) = {}
    /\ \A p, q \in FlushPosts : p # q => EventsIn(p.events) \cap EventsIn(q.events) = {}

\* The flush timers that are pending: every armed handle but the heartbeat's.
FlushTimers == timers.armed \ {sdk.heartbeatIntervalId}

\* C27: at most one flush timer is pending at any time, the flushTimeout
\* field is non-null only while the queue is non-empty, and a non-null
\* flushTimeout is the handle of a pending timer (never a stale handle that
\* would keep scheduleFlush from arming one).
C27_OneFlushTimer ==
    /\ Cardinality(FlushTimers) <= 1
    /\ sdk.flushTimeout # 0 => sdk.queue # <<>>
    /\ sdk.flushTimeout # 0 => sdk.flushTimeout \in FlushTimers

\* C27: a first timer has fired and its flush has failed; the events put back
\* and a newly queued one wait for the second timer, the only one pending.
C27_Witness ==
    /\ sdk.heartbeatIntervalId = 0
    /\ Len(sdk.queue) >= 2
    /\ posts = {}
    /\ sdk.flushTimeout = 2
    /\ timers.armed = {2}

\* C26: within one session the emitted events carry the offsets 0, 1, 2, ...
\* in emission order, each with the uuid of the event emitted just before it
\* as its ref. For an event e that a step emits (it is held after the step
\* and was not before): if e is the first event of its session (the offset
\* field is still 0) it has offset 0 and ref 'root' (0), and if the event
\* emitted just before it in the session is still held (it is the one whose
\* uuid lastRef names) then e has the next offset and that uuid as its ref.
C26_OffsetsAndRefsChain ==
    [][\A e \in HeldEvents' \ HeldEvents :
          /\ sdk.offset = 0 => (e.offset = 0 /\ e.ref = 0)
          /\ \A h \in HeldEvents :
                (h.uuid = sdk.lastRef /\ h.session_id = e.session_id) =>
                    (e.offset = h.offset + 1 /\ e.ref = h.uuid)
      ]_vars

====
